---- MODULE Spec2Model ----
(***************************************************************************)
(* Model of startvnc.py: the identifier resolver Vnc.get_remote, the       *)
(* check_remote guard, the dispatch in main and the start / connect / stop *)
(* lifecycle of the Vnc class, run from one or several terminals of one    *)
(* machine.  Strings that the code inspects character by character         *)
(* (identifiers, action names, the stdout of pgrep) are sequences of       *)
(* one-character strings.                                                  *)
(***************************************************************************)
EXTENDS Integers, Sequences, FiniteSets, TLC

VARIABLES argv, pc, remote, is_started, res, num_proc, listen, trace,
          serverUp, otherViewers, runs, counted, raced

vars == <<argv, pc, remote, is_started, res, num_proc, listen, trace,
          serverUp, otherViewers, runs, counted, raced>>

(* ------------------------------ bounds --------------------------------- *)
NumTerminals   == 2   \* terminals (shells) from which the tool is invoked
MaxInvocations == 3   \* invocations of the tool in one behaviour
MaxViewers     == 2   \* viewer processes not started from these terminals
MaxLen         == 5   \* length of the exhaustively enumerated identifiers

Terminals == 1..NumTerminals

(* ------------------------------ strings -------------------------------- *)
Digits == {"0", "1", "2", "3", "4", "5", "6", "7", "8", "9"}
DigitSeq == <<"0", "1", "2", "3", "4", "5", "6", "7", "8", "9">>
Whitespace == {" ", "\n", "\t"}

DigitVal(c) == (CHOOSE i \in 1..10 : DigitSeq[i] = c) - 1

RECURSIVE Strip(_, _)
\* str.strip(chars): drop the characters of chars from both ends
Strip(s, chars) ==
    IF s = <<>> THEN s
    ELSE IF Head(s) \in chars THEN Strip(Tail(s), chars)
    ELSE IF s[Len(s)] \in chars THEN Strip(SubSeq(s, 1, Len(s) - 1), chars)
    ELSE s

RECURSIVE DecimalValue(_)
DecimalValue(s) ==
    IF s = <<>> THEN 0
    ELSE 10 * DecimalValue(SubSeq(s, 1, Len(s) - 1)) + DigitVal(s[Len(s)])

RECURSIVE ToStr(_)
\* str(n) for n >= 0
ToStr(n) == IF n < 10 THEN <<DigitSeq[n + 1]>>
            ELSE ToStr(n \div 10) \o <<DigitSeq[(n % 10) + 1]>>

\* x in y for two strings
IsSubstr(x, y) ==
    \E i \in 0..(Len(y) - Len(x)) : SubSeq(y, i + 1, i + Len(x)) = x

\* int(s): surrounding whitespace, an optional sign, at least one digit
\* (digit-group underscores are not modelled: no modelled output has one)
IntBody(s) == Strip(s, Whitespace)
IntSigned(s) == IntBody(s) # <<>> /\ Head(IntBody(s)) \in {"+", "-"}
IntDigits(s) == IF IntSigned(s) THEN Tail(IntBody(s)) ELSE IntBody(s)
IntParsable(s) == IntDigits(s) # <<>> /\ \A i \in 1..Len(IntDigits(s)) : IntDigits(s)[i] \in Digits
IntValue(s) == IF IntSigned(s) /\ Head(IntBody(s)) = "-"
               THEN 0 - DecimalValue(IntDigits(s))
               ELSE DecimalValue(IntDigits(s))

(* ----------------------- Optional[str] values -------------------------- *)
None == <<>>
Some(s) == <<s>>
\* str(x) of an Optional[str]
StrOf(x) == IF x = None THEN <<"N", "o", "n", "e">> ELSE x[1]

(* --------------------------- Vnc.get_remote ---------------------------- *)
USER == <<"p", "r", "o", "c", "s", "@">>
OCTET12 == <<"1", "9", "2", ".", "1", "6", "8", ".">>

\* first alternative, '^(([ls])(\d{3}))': re.match anchors it at the start
\* of the string and nothing anchors it at the end
MatchShort(s) ==
    /\ Len(s) >= 4
    /\ s[1] \in {"l", "s"}
    /\ \A i \in 2..4 : s[i] \in Digits

\* '$' without re.MULTILINE: the end of the string, or just before a
\* newline that is the last character
AtDollar(s, pos) ==
    \/ pos = Len(s)
    \/ pos = Len(s) - 1 /\ s[Len(s)] = "\n"

\* second alternative, '((?:\d{3}\.){3}\d{3})$', tried from the start of
\* the string by re.match
MatchIpv4(s) ==
    /\ Len(s) >= 15
    /\ \A i \in 1..15 : IF i % 4 = 0 THEN s[i] = "." ELSE s[i] \in Digits
    /\ AtDollar(s, 15)

Octet3Swapped(letter) ==
    IF letter = "l" THEN <<"1", "0", "1", ".">> ELSE <<"2", "0", "0", ".">>

Octet3(letter) ==
    IF letter = "l" THEN <<"2", "0", "0", ".">> ELSE <<"1", "0", "1", ".">>

get_remote(ip_address) ==
    IF MatchShort(ip_address)
    THEN Some(USER \o OCTET12 \o Octet3(ip_address[1]) \o SubSeq(ip_address, 2, 4))
    ELSE IF MatchIpv4(ip_address)
    THEN Some(USER \o SubSeq(ip_address, 1, 15))
    ELSE None

(* ----------------------------- check_remote ---------------------------- *)
check_remote_always(r) == TRUE

\* 'isVnc and self.remote': the truth value of the Optional[str]
check_remote(r) == r # None /\ r[1] # <<>>

(* --------------------------------- main -------------------------------- *)
START_SERVER   == <<"s", "t", "a", "r", "t", "_", "s", "e", "r", "v", "e", "r">>
CONNECT_SERVER == <<"c", "o", "n", "n", "e", "c", "t", "_", "s", "e", "r", "v", "e", "r">>
STOP_SERVER    == <<"s", "t", "o", "p", "_", "s", "e", "r", "v", "e", "r">>
cmds == <<START_SERVER, CONNECT_SERVER, STOP_SERVER>>

\* func_param[0][0], or None when no method name contains the argument
Dispatch(arg) ==
    IF \E i \in 1..Len(cmds) : IsSubstr(arg, cmds[i])
    THEN Some(cmds[CHOOSE i \in 1..Len(cmds) :
                     /\ IsSubstr(arg, cmds[i])
                     /\ \A j \in 1..(i - 1) : ~IsSubstr(arg, cmds[j])])
    ELSE None

HelpFlags == { <<"-", "h">>, <<"-", "-", "h", "e", "l", "p">> }
WantsHelp(a) == Len(a) = 0 \/ a[1] \in HelpFlags

(* ------------------------ commands and events -------------------------- *)
\* an external command line: the program(s) it runs, the host it names,
\* the port given to ssh -L and the port given to vncviewer
Cmd(prog, host, lport, vport) ==
    [prog |-> prog, host |-> host, lport |-> lport, vport |-> vport]

Event(ev, cmd, rc) == [ev |-> ev, cmd |-> cmd, rc |-> rc]
Echo(cmd)    == Event("echo", cmd, 0)   \* print(cmd)
Exec(cmd)    == Event("exec", cmd, 0)   \* the command is handed to the OS
Ret(cmd, rc) == Event("ret", cmd, rc)   \* the command has returned
Msg(text, host) == Event("msg", Cmd(text, host, 0, 0), 0)   \* other stdout
Err(text, host) == Event("err", Cmd(text, host, 0, 0), 0)   \* stderr

LOCALHOST == <<"l", "o", "c", "a", "l", "h", "o", "s", "t">>

\* the command lines, without the host and the ports
CHECK   == "ssh pgrep -f x0tigervncserver"
COUNT   == "pgrep -c vncviewer"
START   == "ssh x0tigervncserver"
STARTT  == "ssh -t x0tigervncserver"
CONNECT == "ssh -fL sleep 5;vncviewer"
STOP    == "ssh killall x0tigervncserver"

is_server_running_cmd(r) == Cmd(CHECK, StrOf(r), 0, 0)
is_client_running_cmd    == Cmd(COUNT, LOCALHOST, 0, 0)
start_server_cmd(r, term) ==
    Cmd(IF term THEN STARTT ELSE START, StrOf(r), 0, 0)
stop_server_cmd(r) == Cmd(STOP, StrOf(r), 0, 0)
\* "ssh -fL {port}:localhost:5900 {} sleep 5;vncviewer {} ... localhost:{port}"
\* (the -passwd argument of the viewer is left out: no port, host or order
\* depends on it)
connect_server_cmd(r, localport) ==
    Cmd(CONNECT, StrOf(r), localport, localport)

\* what each method sends to stdout and to the OS, in the order of its body
is_server_running_events(cmd) == <<Exec(cmd)>>
is_client_running_events(cmd) == <<Exec(cmd)>>
stop_server_events(cmd)       == <<Exec(cmd)>>
start_server_events(cmd)      == <<Echo(cmd), Exec(cmd)>>
connect_server_events_late_echo(cmd) == <<Exec(cmd), Echo(cmd)>>

connect_server_events(cmd)    == <<Echo(cmd), Exec(cmd)>>

(* ------------------------- is_client_running --------------------------- *)
\* a subprocess.CompletedProcess
Completed(rc, stdout) == [rc |-> rc, stdout |-> stdout]
NoRes == Completed(0, <<>>)

Return(v) == [raised |-> FALSE, value |-> v]
Raise     == [raised |-> TRUE, value |-> 0]

\* the value is_client_running returns for the result of the pgrep call,
\* or the ValueError that int() raises
is_client_running(r) ==
    IF r.rc = 0
    THEN IF IntParsable(Strip(r.stdout, {"\n"}))
         THEN Return(IntValue(Strip(r.stdout, {"\n"})))
         ELSE Raise
    ELSE Return(0)

(* ----------------------------- start_client ---------------------------- *)
ListenIgnoringCount(n) == 9900

\* listen = 9900; if num_proc > 0: listen += num_proc
Listen(n) == IF n > 0 THEN 9900 + n ELSE 9900

DefaultLocalPort == 9900

after_connect_always_stop(started) == "stop_server"

\* if is_started: self.stop_server()
after_connect(started) == IF started THEN "stop_server" ELSE "IDLE"

(* ----------------------------- environment ----------------------------- *)
L193   == <<"l", "1", "9", "3">>
S157   == <<"s", "1", "5", "7">>
N193   == <<"1", "9", "3">>
L193X  == <<"l", "1", "9", "3", "x">>
Idents == {L193, S157, N193, L193X}

Acts == { <<"s", "t", "a", "r", "t">>, <<"s", "e", "r", "v", "e", "r">>,
          <<"c", "o", "n", "n", "e", "c", "t">>, <<"s", "t", "o", "p">>,
          <<"s", "t", "a", "t", "u", "s">> }

DefaultArgvs == { <<i>> : i \in Idents }
Argvs == DefaultArgvs \cup { <<i, a>> : i \in Idents, a \in Acts }
                      \cup { <<>>, << <<"-", "h">> >> }

Hosts == { StrOf(get_remote(i)) : i \in {i \in Idents : get_remote(i) # None} }

\* local viewer processes that pgrep can see
Viewers == otherViewers + Cardinality({t \in Terminals : pc[t] = "vncviewer"})

\* exit status of 'ssh host pgrep -f server' and of 'ssh host killall
\* server': that of the remote command, or 255 when ssh itself fails
SshRc(host) == {IF host \in serverUp THEN 0 ELSE 1, 255}

\* results of 'pgrep -c vncviewer': the count with status 0 when processes
\* match and 1 when none does, a fatal error, or output that is no number
PgrepOutcomes(n) ==
    { Completed(IF n > 0 THEN 0 ELSE 1, ToStr(n) \o <<"\n">>),
      Completed(3, <<>>),
      Completed(0, <<>>),
      Completed(0, <<"?", "\n">>) }

Returned == {"main", "IDLE", "ABORTED", "USAGE", "TRACEBACK"}

InStartClient(t) == Len(argv[t]) = 1

START_CLIENT == <<"s", "t", "a", "r", "t", "_", "c", "l", "i", "e", "n", "t">>

Entry(func) ==
    IF func = START_CLIENT THEN "is_server_running"
    ELSE IF func = START_SERVER THEN "start_server"
    ELSE IF func = CONNECT_SERVER THEN "connect_server"
    ELSE "stop_server"

\* history: has a step of another invocation fallen between the viewer
\* count of an invocation and the start of its tunnel
Race(t, counting) ==
    raced' = [u \in Terminals |->
                IF u = t THEN (IF counting THEN FALSE ELSE raced[t])
                ELSE raced[u] \/ pc[u] = "connect_server"]

Emit(t, evs) == trace' = [trace EXCEPT ![t] = @ \o evs]

NotValid(t) == Err("Could not identify ip from paramter", StrOf(remote[t]))

(* ------------------------------- actions ------------------------------- *)
Init ==
    /\ argv = [t \in Terminals |-> <<>>]
    /\ pc = [t \in Terminals |-> "main"]
    /\ remote = [t \in Terminals |-> None]
    /\ is_started = [t \in Terminals |-> FALSE]
    /\ res = [t \in Terminals |-> NoRes]
    /\ num_proc = [t \in Terminals |-> 0]
    /\ listen = [t \in Terminals |-> 0]
    /\ trace = [t \in Terminals |-> <<>>]
    /\ serverUp \in SUBSET Hosts
    /\ otherViewers \in 0..MaxViewers
    /\ runs = 0
    /\ counted = [t \in Terminals |-> 0]
    /\ raced = [t \in Terminals |-> FALSE]

\* main(): the usage exit, Vnc.__init__ and the dispatch, up to the first
\* external command of the method it calls
main(t, a) ==
    /\ pc[t] \in Returned
    /\ runs < MaxInvocations
    /\ runs' = runs + 1
    /\ argv' = [argv EXCEPT ![t] = a]
    /\ is_started' = [is_started EXCEPT ![t] = FALSE]
    /\ res' = [res EXCEPT ![t] = NoRes]
    /\ num_proc' = [num_proc EXCEPT ![t] = 0]
    /\ counted' = [counted EXCEPT ![t] = 0]
    /\ Race(t, TRUE)
    /\ UNCHANGED <<serverUp, otherViewers>>
    /\ IF WantsHelp(a)
       THEN /\ remote' = [remote EXCEPT ![t] = None]
            /\ pc' = [pc EXCEPT ![t] = "USAGE"]
            /\ listen' = [listen EXCEPT ![t] = 0]
            /\ trace' = [trace EXCEPT ![t] = <<Msg("__doc__", LOCALHOST)>>]
       ELSE LET r == get_remote(a[1])
                func == IF Len(a) = 1 THEN Some(START_CLIENT)
                        ELSE IF Len(a) = 2 THEN Dispatch(a[2])
                        ELSE None
            IN /\ remote' = [remote EXCEPT ![t] = r]
               /\ listen' = [listen EXCEPT ![t] =
                      IF func = Some(CONNECT_SERVER) THEN DefaultLocalPort ELSE 0]
               /\ IF func = None
                  THEN /\ pc' = [pc EXCEPT ![t] = "IDLE"]
                       /\ trace' = [trace EXCEPT ![t] = <<>>]
                  ELSE IF check_remote(r)
                  THEN /\ pc' = [pc EXCEPT ![t] = Entry(func[1])]
                       /\ trace' = [trace EXCEPT ![t] = <<>>]
                  ELSE /\ pc' = [pc EXCEPT ![t] = "ABORTED"]
                       /\ trace' = [trace EXCEPT ![t] =
                              <<Err("Could not identify ip from paramter", a[1])>>]

\* Vnc.is_server_running as called by start_client, with the assignment
\* of is_started that follows it
IsServerRunning(t) ==
    /\ pc[t] = "is_server_running"
    /\ Race(t, FALSE)
    /\ UNCHANGED <<argv, remote, res, num_proc, listen, serverUp, otherViewers, runs, counted>>
    /\ IF check_remote(remote[t])
       THEN \E rc \in SshRc(StrOf(remote[t])) :
              LET cmd == is_server_running_cmd(remote[t])
              IN /\ Emit(t, is_server_running_events(cmd) \o <<Ret(cmd, rc)>> \o
                            (IF rc = 0 THEN <<Msg("already running", cmd.host)>> ELSE <<>>))
                 /\ is_started' = [is_started EXCEPT ![t] = (rc # 0)]
                 /\ pc' = [pc EXCEPT ![t] =
                        IF rc = 0 THEN "is_client_running" ELSE "start_server"]
       ELSE /\ Emit(t, <<NotValid(t)>>)
            /\ is_started' = [is_started EXCEPT ![t] = TRUE]
            /\ pc' = [pc EXCEPT ![t] = "start_server"]

\* Vnc.start_server: in the background (Popen and a sleep) from
\* start_client, in the foreground (subprocess.run) from main
StartServer(t) ==
    /\ pc[t] = "start_server"
    /\ Race(t, FALSE)
    /\ UNCHANGED <<argv, remote, is_started, res, num_proc, listen, otherViewers, runs, counted>>
    /\ IF check_remote(remote[t])
       THEN LET term == ~InStartClient(t)
                cmd == start_server_cmd(remote[t], term)
            IN /\ Emit(t, start_server_events(cmd))
               /\ serverUp' \in {serverUp, serverUp \cup {cmd.host}}
               /\ pc' = [pc EXCEPT ![t] =
                      IF term THEN "x0tigervncserver" ELSE "is_client_running"]
       ELSE /\ Emit(t, <<NotValid(t)>>)
            /\ UNCHANGED serverUp
            /\ pc' = [pc EXCEPT ![t] =
                   IF InStartClient(t) THEN "is_client_running" ELSE "IDLE"]

\* the foreground ssh session of start_server(True) ends
ServerSessionEnd(t) ==
    /\ pc[t] = "x0tigervncserver"
    /\ Race(t, FALSE)
    /\ UNCHANGED <<argv, remote, is_started, res, num_proc, listen, otherViewers, runs, counted>>
    /\ Emit(t, <<Ret(start_server_cmd(remote[t], TRUE), 0)>>)   \* status unused
    /\ serverUp' \in {serverUp, serverUp \ {StrOf(remote[t])}}
    /\ pc' = [pc EXCEPT ![t] = "IDLE"]

\* Vnc.is_client_running and the choice of the port in start_client
IsClientRunning(t) ==
    /\ pc[t] = "is_client_running"
    /\ Race(t, TRUE)
    /\ UNCHANGED <<argv, remote, is_started, serverUp, otherViewers, runs>>
    /\ counted' = [counted EXCEPT ![t] = Viewers]
    /\ \E r \in PgrepOutcomes(Viewers) :
         LET cmd == is_client_running_cmd
             out == is_client_running(r)
         IN /\ res' = [res EXCEPT ![t] = r]
            /\ IF out.raised
               THEN /\ Emit(t, is_client_running_events(cmd) \o
                               <<Ret(cmd, r.rc), Err("ValueError", LOCALHOST)>>)
                    /\ pc' = [pc EXCEPT ![t] = "TRACEBACK"]
                    /\ UNCHANGED <<num_proc, listen>>
               ELSE /\ num_proc' = [num_proc EXCEPT ![t] = out.value]
                    /\ listen' = [listen EXCEPT ![t] = Listen(out.value)]
                    /\ Emit(t, is_client_running_events(cmd) \o <<Ret(cmd, r.rc)>> \o
                               (IF out.value > 0
                                THEN <<Msg("instance(s) is running. Use forwarding port", LOCALHOST)>>
                                ELSE <<>>))
                    /\ pc' = [pc EXCEPT ![t] = "connect_server"]

\* Vnc.connect_server up to the point where os.system blocks on the viewer
ConnectServer(t) ==
    /\ pc[t] = "connect_server"
    /\ Race(t, FALSE)
    /\ UNCHANGED <<argv, remote, is_started, res, num_proc, listen, serverUp, otherViewers, runs>>
    /\ counted' = [counted EXCEPT ![t] = IF InStartClient(t) THEN @ ELSE Viewers]
    /\ IF check_remote(remote[t])
       THEN /\ Emit(t, connect_server_events(connect_server_cmd(remote[t], listen[t])))
            /\ pc' = [pc EXCEPT ![t] = "vncviewer"]
       ELSE /\ Emit(t, <<NotValid(t)>>)
            /\ pc' = [pc EXCEPT ![t] =
                   IF InStartClient(t) THEN after_connect(is_started[t]) ELSE "IDLE"]

\* the viewer exits, os.system returns, and start_client decides on the
\* cleanup
ViewerExit(t) ==
    /\ pc[t] = "vncviewer"
    /\ Race(t, FALSE)
    /\ UNCHANGED <<argv, remote, is_started, res, num_proc, listen, serverUp, otherViewers, runs, counted>>
    /\ Emit(t, <<Ret(connect_server_cmd(remote[t], listen[t]), 0)>>)   \* status unused
    /\ pc' = [pc EXCEPT ![t] =
           IF InStartClient(t) THEN after_connect(is_started[t]) ELSE "IDLE"]

\* Vnc.stop_server
StopServer(t) ==
    /\ pc[t] = "stop_server"
    /\ Race(t, FALSE)
    /\ UNCHANGED <<argv, remote, is_started, res, num_proc, listen, otherViewers, runs, counted>>
    /\ pc' = [pc EXCEPT ![t] = "IDLE"]
    /\ IF check_remote(remote[t])
       THEN \E rc \in SshRc(StrOf(remote[t])) :
              LET cmd == stop_server_cmd(remote[t])
              IN /\ Emit(t, stop_server_events(cmd) \o <<Ret(cmd, rc)>> \o
                            (IF rc = 0 THEN <<Msg("Closed", cmd.host)>> ELSE <<>>))
                 /\ serverUp' = IF rc = 0 THEN serverUp \ {cmd.host} ELSE serverUp
       ELSE /\ Emit(t, <<NotValid(t)>>)
            /\ UNCHANGED serverUp

\* a viewer that was not started from these terminals starts or exits
EnvViewer ==
    /\ \E n \in 0..MaxViewers :
         /\ n \in {otherViewers - 1, otherViewers + 1}
         /\ otherViewers' = n
    /\ UNCHANGED <<argv, pc, remote, is_started, res, num_proc, listen, trace,
                   serverUp, runs, counted, raced>>

\* somebody else starts or stops the server of a host
EnvServer ==
    /\ \E h \in Hosts :
         serverUp' = IF h \in serverUp THEN serverUp \ {h} ELSE serverUp \cup {h}
    /\ UNCHANGED <<argv, pc, remote, is_started, res, num_proc, listen, trace,
                   otherViewers, runs, counted, raced>>

Invoke(t) == \E a \in Argvs : main(t, a)
InvokeDefault(t) == \E a \in DefaultArgvs : main(t, a)

\* one invocation at a time, in an environment that changes freely
Next ==
    \/ Invoke(1)
    \/ IsServerRunning(1)
    \/ StartServer(1)
    \/ ServerSessionEnd(1)
    \/ IsClientRunning(1)
    \/ ConnectServer(1)
    \/ ViewerExit(1)
    \/ StopServer(1)
    \/ EnvViewer
    \/ EnvServer

Spec == Init /\ [][Next]_vars

\* default invocations from every terminal, and nothing else
InitConc ==
    /\ Init
    /\ otherViewers = 0

NextConc ==
    \E t \in Terminals :
        \/ InvokeDefault(t)
        \/ IsServerRunning(t)
        \/ StartServer(t)
        \/ IsClientRunning(t)
        \/ ConnectServer(t)
        \/ ViewerExit(t)
        \/ StopServer(t)

SpecConc == InitConc /\ [][NextConc]_vars

(* --------------------- the resolver on many inputs --------------------- *)
Alphabet == {"l", "s", "x", "1", "9", "."}
ShortInputs == UNION { [1..k -> Alphabet] : k \in 0..MaxLen }

Groups == { <<"1", "9", "2">>, <<"1", "6", "8">>, <<"1", "9">>, <<"1">>,
            <<"1", "9", "2", "0">> }
Prefixes == { <<>>, <<"x">>, <<"1">> }
Suffixes == { <<>>, <<"\n">>, <<"x">>, <<"\n", "\n">>, <<".">> }
DottedInputs ==
    { p \o a \o <<".">> \o b \o <<".">> \o c \o <<".">> \o d \o q :
        p \in Prefixes, a \in Groups, b \in Groups, c \in Groups, d \in Groups,
        q \in Suffixes }

InitResolve ==
    /\ Init
    /\ serverUp = {}
    /\ otherViewers = 0

\* one invocation 'startvnc.py <identifier>', stopped after Vnc.__init__
\* and the guard of start_client
NextResolve ==
    /\ runs = 0
    /\ \E i \in ShortInputs \cup DottedInputs : main(1, <<i>>)

SpecResolve == InitResolve /\ [][NextResolve]_vars

(* ------------------------------- claims -------------------------------- *)
\* the Vnc object of the current invocation of terminal t exists
Constructed(t) == pc[t] \notin {"main", "USAGE"}

\* the current invocation of terminal t is 'startvnc.py <identifier>'
IsDefault(t) == Constructed(t) /\ Len(argv[t]) = 1

\* the two shapes, over the whole length of the string
ExactShort(s) ==
    /\ Len(s) = 4
    /\ s[1] \in {"s", "l"}
    /\ \A i \in 2..4 : s[i] \in Digits
ExactIpv4(s) ==
    /\ Len(s) = 15
    /\ \A i \in 1..15 : IF i \in {4, 8, 12} THEN s[i] = "." ELSE s[i] \in Digits

ExpectedShort(s) ==
    USER \o <<"1", "9", "2", ".", "1", "6", "8", ".">>
         \o (IF s[1] = "l" THEN <<"2", "0", "0">> ELSE <<"1", "0", "1">>)
         \o <<".">> \o <<s[2], s[3], s[4]>>

\* C1: an identifier that is exactly [sl] and three digits resolves to
\* procs@192.168.<200 for l, 101 for s>.<the digits>, and an identifier that
\* is exactly four dot-separated groups of three digits resolves to procs@
\* followed by the identifier itself.
C1_ResolvesBothShapes ==
    \A t \in Terminals :
        Constructed(t) =>
            /\ ExactShort(argv[t][1]) => remote[t] = Some(ExpectedShort(argv[t][1]))
            /\ ExactIpv4(argv[t][1]) => remote[t] = Some(USER \o argv[t][1])

C1_Witness ==
    \E t \in Terminals :
        /\ Constructed(t)
        /\ argv[t][1] = <<"l", "1", "9", "1">>
        /\ remote[t] = Some(USER \o <<"1", "9", "2", ".", "1", "6", "8", ".",
                                     "2", "0", "0", ".", "1", "9", "1">>)

\* C2: an identifier that is neither shape over its whole length (extra
\* leading or trailing characters, short octets, other letters) resolves to
\* no target.
C2_NoTargetOtherwise ==
    \A t \in Terminals :
        (Constructed(t) /\ ~ExactShort(argv[t][1]) /\ ~ExactIpv4(argv[t][1]))
            => remote[t] = None

\* the external commands and echoes in the output of terminal t
Indices(t) == 1..Len(trace[t])
Executed(t, prog) ==
    \E i \in Indices(t) : trace[t][i].ev = "exec" /\ trace[t][i].cmd.prog = prog

\* C3: when the identifier does not resolve, no action (default, start /
\* server, connect, stop) builds, echoes or runs any external command, and
\* the invocation returns normally.
C3_NoCommandWithoutTarget ==
    \A t \in Terminals :
        (Constructed(t) /\ remote[t] = None) =>
            /\ pc[t] \in {"ABORTED", "IDLE"}
            /\ \A i \in Indices(t) : trace[t][i].ev \notin {"echo", "exec", "ret"}

C3_Witness ==
    \E t \in Terminals :
        /\ pc[t] = "ABORTED"
        /\ remote[t] = None
        /\ Len(argv[t]) = 2
        /\ Dispatch(argv[t][2]) = Some(STOP_SERVER)
        /\ trace[t] = <<Err("Could not identify ip from paramter", argv[t][1])>>

\* the viewer-count query of terminal t reported the viewers that ran
QueryReported(t) == is_client_running(res[t]) = Return(counted[t])

ConnectEvents(t) ==
    { i \in Indices(t) : trace[t][i].ev = "exec" /\ trace[t][i].cmd.prog = CONNECT }

\* C4 as stated: every connect, by the default invocation or by the
\* connect action, with N local viewers running, gives port 9900 + N to
\* the tunnel and to the viewer.
C4_PortIsBasePlusViewers ==
    \A t \in Terminals : \A i \in ConnectEvents(t) :
        /\ trace[t][i].cmd.lport = 9900 + counted[t]
        /\ trace[t][i].cmd.vport = 9900 + counted[t]

\* C4 as amended: a connect of the default invocation whose viewer-count
\* query reported the N running viewers gives port 9900 + N to the tunnel
\* and to the viewer; a connect of the explicit connect action makes no
\* count and gives both port 9900.
C4_PortByInvocation ==
    \A t \in Terminals : \A i \in ConnectEvents(t) :
        /\ trace[t][i].cmd.lport = trace[t][i].cmd.vport
        /\ (IsDefault(t) /\ QueryReported(t))
              => trace[t][i].cmd.lport = 9900 + counted[t]
        /\ ~IsDefault(t) => trace[t][i].cmd.lport = 9900

C4_Witness ==
    \E t \in Terminals : \E i \in ConnectEvents(t) :
        /\ IsDefault(t)
        /\ QueryReported(t)
        /\ counted[t] = 2
        /\ trace[t][i].cmd.lport = 9902
        /\ trace[t][i].cmd.vport = 9902

\* the external steps of terminal t: what was started and what returned
Steps(t) ==
    LET s == SelectSeq(trace[t], LAMBDA e : e.ev \in {"exec", "ret"})
    IN [i \in 1..Len(s) |-> <<s[i].ev, s[i].cmd.prog>>]

IsPrefix(s, full) == Len(s) <= Len(full) /\ s = SubSeq(full, 1, Len(s))

FlowServerFound ==
    << <<"exec", CHECK>>, <<"ret", CHECK>>,
       <<"exec", COUNT>>, <<"ret", COUNT>>,
       <<"exec", CONNECT>>, <<"ret", CONNECT>> >>
FlowServerStarted ==
    << <<"exec", CHECK>>, <<"ret", CHECK>>, <<"exec", START>>,
       <<"exec", COUNT>>, <<"ret", COUNT>>,
       <<"exec", CONNECT>>, <<"ret", CONNECT>>,
       <<"exec", STOP>>, <<"ret", STOP>> >>

\* the check of terminal t has returned and reported the server running
CheckFound(t) ==
    \E i \in Indices(t) :
        trace[t][i].ev = "ret" /\ trace[t][i].cmd.prog = CHECK /\ trace[t][i].rc = 0
CheckNotFound(t) ==
    \E i \in Indices(t) :
        trace[t][i].ev = "ret" /\ trace[t][i].cmd.prog = CHECK /\ trace[t][i].rc # 0

\* C5: the external steps of a default invocation come in the order
\* check, start (only after a check that found no server), count, tunnel
\* and viewer, stop (only when this invocation started the server, and
\* only after the viewer has returned); a server the check found running
\* is never stopped and no stop is issued while the viewer is open.
C5_StepOrder ==
    \A t \in Terminals :
        IsDefault(t) =>
            /\ IsPrefix(Steps(t), FlowServerFound) \/ IsPrefix(Steps(t), FlowServerStarted)
            /\ CheckFound(t) => (IsPrefix(Steps(t), FlowServerFound) /\ ~Executed(t, STOP))
            /\ CheckNotFound(t) => IsPrefix(Steps(t), FlowServerStarted)
            /\ pc[t] = "vncviewer" => ~Executed(t, STOP)
            /\ Executed(t, STOP) => is_started[t]

C5_Witness ==
    \E t \in Terminals :
        /\ IsDefault(t)
        /\ pc[t] = "IDLE"
        /\ is_started[t]
        /\ Steps(t) = FlowServerStarted

\* C6: a default invocation ends ABORTED when the identifier does not
\* resolve and IDLE otherwise, whatever the external commands return, and
\* one that started the server has issued the stop when it is IDLE.
C6_EndsIdleOrAborted ==
    \A t \in Terminals :
        (IsDefault(t) /\ pc[t] \in Returned) =>
            /\ pc[t] = (IF remote[t] = None THEN "ABORTED" ELSE "IDLE")
            /\ is_started[t] => Executed(t, STOP)

\* C7 as stated: every external command is echoed before it is executed.
C7_EveryCommandEchoed ==
    \A t \in Terminals : \A i \in Indices(t) :
        trace[t][i].ev = "exec" =>
            \E j \in 1..(i - 1) : trace[t][j] = Echo(trace[t][i].cmd)

\* C7 as amended: the server start and the tunnel-and-viewer command are
\* echoed immediately before they are executed; the remote check, the
\* viewer count and the stop are executed without an echo.
C7_StartAndConnectEchoed ==
    \A t \in Terminals : \A i \in Indices(t) :
        trace[t][i].ev = "exec" =>
            IF trace[t][i].cmd.prog \in {START, STARTT, CONNECT}
            THEN i > 1 /\ trace[t][i - 1] = Echo(trace[t][i].cmd)
            ELSE \A j \in Indices(t) : trace[t][j] # Echo(trace[t][i].cmd)

C7_Witness ==
    \E t \in Terminals :
        /\ Executed(t, CHECK)
        /\ Executed(t, START)
        /\ Executed(t, COUNT)
        /\ Executed(t, CONNECT)
        /\ Executed(t, STOP)

\* the viewer-count query of terminal t has returned
Counted(t) ==
    \E i \in Indices(t) : trace[t][i].ev = "ret" /\ trace[t][i].cmd.prog = COUNT

\* C8: the viewer count is the parsed number when pgrep exits 0 with a
\* parsable count and zero on a non-zero exit and on unparsable output,
\* and in each case the connect flow goes on.
C8_CountDefaultsToZero ==
    \A t \in Terminals :
        Counted(t) =>
            /\ pc[t] \in {"connect_server", "vncviewer", "stop_server", "IDLE"}
            /\ num_proc[t] =
                  (IF res[t].rc = 0 /\ IntParsable(Strip(res[t].stdout, {"\n"}))
                   THEN IntValue(Strip(res[t].stdout, {"\n"}))
                   ELSE 0)

\* C9: when no invocation is interleaved between the viewer count and the
\* tunnel of another, and every count is reported as it is, two viewer
\* sessions of default invocations that are open together have different
\* forward ports.
C9_OpenSessionsDifferInPort ==
    \A t \in Terminals : \A u \in Terminals \ {t} :
        ( /\ pc[t] = "vncviewer" /\ pc[u] = "vncviewer"
          /\ IsDefault(t) /\ IsDefault(u)
          /\ QueryReported(t) /\ QueryReported(u)
          /\ ~raced[t] /\ ~raced[u] )
            => listen[t] # listen[u]

\* C10: the cleanup stop of a default invocation is never executed while
\* the viewer of another invocation is open on the same host.
C10_StopSparesOpenSessions ==
    [][ \A t \in Terminals :
          (pc[t] = "stop_server" /\ pc'[t] = "IDLE" /\ IsDefault(t)) =>
              \A u \in Terminals \ {t} :
                  ~(pc[u] = "vncviewer" /\ remote[u] = remote[t]) ]_vars

====
